---- MODULE Spec2Model ----
(***************************************************************************)
(* A model of lance-mcp: the ingestion run of seed() (catalog and chunks   *)
(* tables, content-hash deduplication, image processing) and the search    *)
(* tools' result formatting (chunks_search, all_chunks_search,             *)
(* catalog_search).                                                        *)
(*                                                                         *)
(* Two specifications share the variables:                                 *)
(*   Spec        runs of seed() against one database directory;            *)
(*   SearchSpec  one tool call over a list of retrieved hits.              *)
(***************************************************************************)
EXTENDS Integers, Sequences, FiniteSets, TLC

VARIABLES
    db,                 \* the two persisted tables: [catalog, chunks]
    tempDir,            \* os.tmpdir()/lance-mcp-images: [exists, files]
    pc,                 \* position of seed(): idle, load, docs, images, chunks, done, aborted
    runId,              \* number of runs started so far
    overwrite,          \* argv["overwrite"] of the current run
    filesDir,           \* content of --filesdir at the current run: [pdfs, images]
    catalogTableExists, \* seed(): whether openTable(catalog) succeeded
    rawDocs,            \* seed(): documents loaded by directoryLoader
    cursor,             \* processDocuments(): index of the next source in the loop
    skipSources,        \* processDocuments(): sources found in the catalog
    catalogRecords,     \* processDocuments(): staged catalog records
    summarized,         \* sources handed to generateContentOverview in this run
    imageDocuments,     \* processImages(): documents of the described images
    allDocs,            \* seed(): the batch handed to the chunks table
    failure,            \* what made the run abort ([kind, source]) or NoFailure
    faults,             \* number of failures injected so far
    pre,                \* history: db when the current run started
    prev,               \* history: the previous run [dir, overwrite, outcome]
    appendOnly,         \* history: no run so far, this one included, was a rebuild
    repeated,           \* history: every earlier run was a completed append-mode
                        \* run over this run's directory that listed its images
    imageFaults,        \* history: what failed in processImages() of this run
    results,            \* search: hits returned by retriever.invoke
    loc,                \* search: a location value handed to extractPageInfo
    pageInfo,           \* search: what extractPageInfo returned for loc, or NotCalled
    response            \* search: the tool's answer, or NoResponse

ingestVars == <<db, tempDir, pc, runId, overwrite, filesDir, catalogTableExists,
                rawDocs, cursor, skipSources, catalogRecords, summarized,
                imageDocuments, allDocs, failure, faults, pre, prev, appendOnly, repeated,
                imageFaults>>
searchVars == <<results, loc, pageInfo, response>>
vars == <<ingestVars, searchVars>>

(***************************************************************************)
(* Bounds of the model.                                                    *)
(***************************************************************************)
MaxRuns == 2
MaxFaults == 1
MaxHits == 3

(***************************************************************************)
(* The input directory.  PDFs are enumerated in the order of PdfPaths      *)
(* (DirectoryLoader's order); a file's content is named by its sha256.     *)
(***************************************************************************)
PdfPaths == <<"a.pdf", "b.pdf">>
ImgPaths == <<"i.png", "j.jpg">>
Hashes == {"h1", "h2"}
NoFile == "absent"

RangeOf(s) == {s[i] : i \in DOMAIN s}

\* The contents each path takes in the runs explored: a.pdf changes between
\* two contents, b.pdf is absent or a byte-identical copy of the first.
Contents(path) == IF path = "a.pdf" THEN Hashes ELSE {"h1"}

Dirs == [pdfs : {f \in [RangeOf(PdfPaths) -> Hashes \cup {NoFile}] :
                    \A p \in RangeOf(PdfPaths) : f[p] \in Contents(p) \cup {NoFile}},
         images : SUBSET {"i.png"}]

\* The directories of the runs that explore image processing: no PDF or two
\* new ones, and up to two standalone images.
ImageDirs ==
    [pdfs : {[p \in RangeOf(PdfPaths) |-> NoFile],
             [p \in RangeOf(PdfPaths) |-> IF p = "a.pdf" THEN "h2" ELSE "h1"]},
     images : {{}, {"i.png"}, {"i.png", "j.jpg"}}]

\* Number of pages of a PDF, a function of its content.
NumPages(hash) == IF hash = "h2" THEN 2 ELSE 1

RECURSIVE SelectIn(_, _)
\* s.filter(x => set.has(x)) for a sequence of strings.
SelectIn(s, set) ==
    IF s = <<>> THEN <<>>
    ELSE IF Head(s) \in set THEN <<Head(s)>> \o SelectIn(Tail(s), set)
    ELSE SelectIn(Tail(s), set)

RECURSIVE Concat(_)
\* The concatenation of a sequence of sequences.
Concat(ss) == IF ss = <<>> THEN <<>> ELSE Head(ss) \o Concat(Tail(ss))

(***************************************************************************)
(* The vector store.  A table is missing or holds a sequence of rows; the  *)
(* rows carry the number of the run that wrote them (history only).        *)
(***************************************************************************)
NoTable == [exists |-> FALSE, rows |-> <<>>]

\* LanceDB.fromDocuments(docs, embeddings, {mode, uri, tableName}): in mode
\* "overwrite" the table is recreated from the batch alone; otherwise the
\* batch is appended to the table, which is created when it is missing.
LanceDB_fromDocuments(table, rows, mode) ==
    IF mode = "overwrite"
    THEN [exists |-> TRUE, rows |-> rows]
    ELSE [exists |-> TRUE, rows |-> table.rows \o rows]

\* seed(): the mode handed to LanceDB.fromDocuments.
AlwaysOverwriteMode(ow) == "overwrite"
CommitMode(ow) == IF ow THEN "overwrite" ELSE "undefined"

\* seed(): both dropTable calls sit in one try block, and dropTable throws
\* for a table that does not exist: when the catalog table is missing the
\* chunks table is not dropped.
DropTables(d) ==
    IF d.catalog.exists
    THEN [catalog |-> NoTable, chunks |-> NoTable]
    ELSE d

\* catalogRecordExists: query().where(`hash="${hash}"`).limit(1)
AnyRecordExists(catalogTable, hash) == catalogTable.rows # <<>>
NeverExists(catalogTable, hash) == FALSE
catalogRecordExists(catalogTable, hash) ==
    \E i \in DOMAIN catalogTable.rows : catalogTable.rows[i].hash = hash

(***************************************************************************)
(* Documents.                                                              *)
(***************************************************************************)
\* directoryLoader.load() and the metadata stripping of seed(): one document
\* per page of every PDF of the directory, with metadata {loc, source}.
LoadDocuments(dir) ==
    Concat([i \in DOMAIN PdfPaths |->
        IF dir.pdfs[PdfPaths[i]] = NoFile THEN <<>>
        ELSE [k \in 1..NumPages(dir.pdfs[PdfPaths[i]]) |->
                 [source |-> PdfPaths[i], page |-> k]]])

RECURSIVE SourcesOf(_, _)
\* The keys of docsBySource, in insertion order.
SourcesOf(docs, seen) ==
    IF docs = <<>> THEN <<>>
    ELSE IF Head(docs).source \in seen THEN SourcesOf(Tail(docs), seen)
    ELSE <<Head(docs).source>> \o SourcesOf(Tail(docs), seen \cup {Head(docs).source})

docsBySource(docs) == SourcesOf(docs, {})

\* processDocuments(): sha256 of the file's bytes.
HashOf(dir, source) == dir.pdfs[source]

\* seed(): skipExistsCheck = overwrite || !catalogTableExists
skipExistsCheck(ow, tableExists) == ow \/ ~tableExists

\* seed(): rawDocs.filter(doc => !skipSources.includes(doc.metadata.source))
UnfilteredRawDocs(docs, skipped) == docs
filteredRawDocs(docs, skipped) ==
    SelectSeq(docs, LAMBDA d : d.source \notin RangeOf(skipped))

\* splitter.splitDocuments: every page fits one window of 500 characters,
\* so each document gives one chunk that keeps its metadata.
splitDocuments(docs) ==
    [i \in DOMAIN docs |->
        [source |-> docs[i].source, type |-> "text",
         page |-> docs[i].page, imagePath |-> ""]]

StampCatalog(recs, run) ==
    [i \in DOMAIN recs |->
        [source |-> recs[i].source, hash |-> recs[i].hash, run |-> run]]

StampChunks(docs, run) ==
    [i \in DOMAIN docs |->
        [source |-> docs[i].source, type |-> docs[i].type, page |-> docs[i].page,
         imagePath |-> docs[i].imagePath, run |-> run]]

(***************************************************************************)
(* Image processing (image-processor.ts and processImages).                *)
(***************************************************************************)
\* pdf2pic's output file for one page, under the scratch directory.
PagePath(pdfPath, k) == "tmp/" \o pdfPath \o "." \o ToString(k) \o ".png"

\* processStandaloneImage: the optimized copy, or the original path when
\* sharp fails.
OptimizedPathAlways(imagePath, ok) == "tmp/optimized_" \o imagePath
processStandaloneImage(imagePath, ok) ==
    IF ok THEN "tmp/optimized_" \o imagePath ELSE imagePath

\* extractImagesFromPDF: one image path per page, or none when pdf2pic fails.
PagesRegardless(pdfPath, hash, ok) ==
    [k \in 1..NumPages(hash) |-> PagePath(pdfPath, k)]
extractImagesFromPDF(pdfPath, hash, ok) ==
    IF ok THEN [k \in 1..NumPages(hash) |-> PagePath(pdfPath, k)] ELSE <<>>

\* processImagesFromPDF followed by resultsToDocuments.
processImagesFromPDF(pdfPath, hash, ok) ==
    LET imagePaths == extractImagesFromPDF(pdfPath, hash, ok)
    IN  [i \in DOMAIN imagePaths |->
            [source |-> pdfPath, type |-> "image", page |-> i,
             imagePath |-> imagePaths[i]]]

\* processStandaloneImageFile followed by resultsToDocuments: no pageNumber.
NullResult(imagePath, ok) == <<>>
processStandaloneImageFile(imagePath, ok) ==
    <<[source |-> imagePath, type |-> "image", page |-> 0,
       imagePath |-> processStandaloneImage(imagePath, ok)]>>

\* processImages(): the PDF sources that are not skipped, in document order.
pdfSources(docs, skipped) ==
    SelectSeq(docsBySource(docs), LAMBDA s : s \notin RangeOf(skipped))

\* findImageFiles: the supported image files under the input root.
findImageFiles(dir) == SelectIn(ImgPaths, dir.images)

\* The documents processImages() returns.  rasterFail: PDFs whose extraction
\* fails; normFail: images whose normalization fails; scanFail: the
\* directory scan throws (caught by processImages' own try block).
ImageDocs(docs, skipped, dir, rasterFail, normFail, scanFail) ==
    LET pdfs == pdfSources(docs, skipped)
        imgs == findImageFiles(dir)
    IN  Concat([i \in DOMAIN pdfs |->
            processImagesFromPDF(pdfs[i], HashOf(dir, pdfs[i]), pdfs[i] \notin rasterFail)])
        \o (IF scanFail THEN <<>>
            ELSE Concat([i \in DOMAIN imgs |->
                    processStandaloneImageFile(imgs[i], imgs[i] \notin normFail)]))

\* The files the run writes under the scratch directory.
ScratchFiles(imageDocs) ==
    {imageDocs[i].imagePath : i \in {j \in DOMAIN imageDocs :
                                        imageDocs[j].imagePath # imageDocs[j].source}}

\* cleanupTempFiles: unlink every file, then rmdir; a failure is only logged.
UnlinkOnly(dirState, ok) ==
    IF ok /\ dirState.exists THEN [exists |-> TRUE, files |-> {}] ELSE dirState
cleanupTempFiles(dirState, ok) ==
    IF ok /\ dirState.exists THEN [exists |-> FALSE, files |-> {}] ELSE dirState

(***************************************************************************)
(* seed(): one ingestion run, step by step.                                *)
(***************************************************************************)
EmptyDir == [pdfs |-> [p \in RangeOf(PdfPaths) |-> NoFile], images |-> {}]
NoFailure == [kind |-> "none", source |-> ""]
NoRun == [dir |-> EmptyDir, overwrite |-> FALSE, outcome |-> "none"]
\* processImages() has not run yet in this run.
NoImageFaults == [called |-> FALSE, raster |-> {}, norm |-> {}, scan |-> FALSE,
                  cleanup |-> FALSE]

(***************************************************************************)
(* JavaScript values, as far as the search tools handle them.              *)
(***************************************************************************)
Undefined == [t |-> "undefined"]
Null == [t |-> "null"]
Throw == [t |-> "throw"]                \* a TypeError propagating to the caller
Num(n) == [t |-> "number", num |-> n]
Str(s) == [t |-> "string", str |-> s]
\* A location object {pageNumber, page, lines} and its lines object {from, to};
\* a field that is absent holds Undefined.
LocObject(pageNumber, page, lines) ==
    [t |-> "object", pageNumber |-> pageNumber, page |-> page, lines |-> lines]
LinesObject(from, to) == [t |-> "object", from |-> from, to |-> to]

NotCalled == [tool |-> "none", loc |-> Undefined, result |-> Undefined]
NoResponse == [tool |-> "none", source |-> Undefined, isError |-> FALSE, text |-> ""]

IngestInit ==
    /\ db = [catalog |-> NoTable, chunks |-> NoTable]
    /\ tempDir = [exists |-> FALSE, files |-> {}]
    /\ pc = "idle"
    /\ runId = 0
    /\ overwrite = FALSE
    /\ filesDir = EmptyDir
    /\ catalogTableExists = FALSE
    /\ rawDocs = <<>>
    /\ cursor = 1
    /\ skipSources = <<>>
    /\ catalogRecords = <<>>
    /\ summarized = <<>>
    /\ imageDocuments = <<>>
    /\ allDocs = <<>>
    /\ failure = NoFailure
    /\ faults = 0
    /\ pre = [catalog |-> NoTable, chunks |-> NoTable]
    /\ prev = NoRun
    /\ appendOnly = TRUE
    /\ repeated = TRUE
    /\ imageFaults = NoImageFaults

Init ==
    /\ IngestInit
    /\ results = <<>>
    /\ loc = Undefined
    /\ pageInfo = NotCalled
    /\ response = NoResponse

RunEnded == pc \in {"done", "aborted"}

\* seed() up to the drop of the tables: open both tables, remember whether
\* the catalog table exists, drop both when --overwrite is given.
StartRun(ow, dir) ==
    /\ pc = "idle" \/ RunEnded
    /\ runId < MaxRuns
    /\ runId' = runId + 1
    /\ overwrite' = ow
    /\ filesDir' = dir
    /\ catalogTableExists' = db.catalog.exists
    /\ db' = IF ow THEN DropTables(db) ELSE db
    /\ pre' = db
    /\ prev' = IF pc = "idle" THEN NoRun
               ELSE [dir |-> filesDir, overwrite |-> overwrite, outcome |-> pc]
    /\ appendOnly' = (appendOnly /\ ~ow)
    /\ repeated' = \/ pc = "idle"
                   \/ /\ repeated
                      /\ pc = "done"
                      /\ ~overwrite
                      /\ filesDir = dir
                      /\ ~imageFaults.scan
    /\ imageFaults' = NoImageFaults
    /\ rawDocs' = <<>>
    /\ cursor' = 1
    /\ skipSources' = <<>>
    /\ catalogRecords' = <<>>
    /\ summarized' = <<>>
    /\ imageDocuments' = <<>>
    /\ allDocs' = <<>>
    /\ failure' = NoFailure
    /\ pc' = "load"
    /\ UNCHANGED <<tempDir, faults, searchVars>>

\* The run ends on an unhandled rejection: seed() has no handler around
\* its awaits, and nothing more is written.
Abort(kind, source) ==
    /\ faults < MaxFaults
    /\ faults' = faults + 1
    /\ failure' = [kind |-> kind, source |-> source]
    /\ pc' = "aborted"
    /\ UNCHANGED <<db, tempDir, runId, overwrite, filesDir, catalogTableExists,
                   rawDocs, cursor, skipSources, catalogRecords, summarized,
                   imageDocuments, allDocs, pre, prev, appendOnly, repeated,
                   imageFaults, searchVars>>

\* directoryLoader.load() and the metadata stripping.
LoadDocs ==
    /\ pc = "load"
    /\ rawDocs' = LoadDocuments(filesDir)
    /\ pc' = "docs"
    /\ UNCHANGED <<db, tempDir, runId, overwrite, filesDir, catalogTableExists,
                   cursor, skipSources, catalogRecords, summarized,
                   imageDocuments, allDocs, failure, faults, pre, prev, appendOnly, repeated,
                   imageFaults, searchVars>>

\* directoryLoader.load() rejects.
LoadFails ==
    /\ pc = "load"
    /\ Abort("load", "")

\* processDocuments(): one iteration of the loop over the sources.
ProcessSource ==
    /\ pc = "docs"
    /\ cursor <= Len(docsBySource(rawDocs))
    /\ LET source == docsBySource(rawDocs)[cursor]
           hash == HashOf(filesDir, source)
           exists == IF skipExistsCheck(overwrite, catalogTableExists) THEN FALSE
                     ELSE catalogRecordExists(db.catalog, hash)
       IN  IF exists
           THEN /\ skipSources' = Append(skipSources, source)
                /\ UNCHANGED <<catalogRecords, summarized>>
           ELSE /\ summarized' = Append(summarized, source)
                /\ catalogRecords' = Append(catalogRecords,
                                            [source |-> source, hash |-> hash])
                /\ UNCHANGED skipSources
    /\ cursor' = cursor + 1
    /\ UNCHANGED <<db, tempDir, pc, runId, overwrite, filesDir, catalogTableExists,
                   rawDocs, imageDocuments, allDocs, failure, faults, pre, prev,
                   appendOnly, repeated,
                   imageFaults,
                   searchVars>>

\* processDocuments(): fs.promises.readFile(source) rejects; nothing in the
\* loop catches it.
ReadFileFails ==
    /\ pc = "docs"
    /\ cursor <= Len(docsBySource(rawDocs))
    /\ Abort("read", docsBySource(rawDocs)[cursor])

\* processDocuments(): generateContentOverview rejects for a source that is
\* not skipped; nothing in the loop catches it.
SummarizeFails ==
    /\ pc = "docs"
    /\ cursor <= Len(docsBySource(rawDocs))
    /\ LET source == docsBySource(rawDocs)[cursor]
       IN  /\ \/ skipExistsCheck(overwrite, catalogTableExists)
              \/ ~catalogRecordExists(db.catalog, HashOf(filesDir, source))
           /\ Abort("summarize", source)

\* seed(): the catalog commit.  An empty batch reuses the table as it is.
CommitCatalog ==
    /\ pc = "docs"
    /\ cursor > Len(docsBySource(rawDocs))
    /\ db' = [db EXCEPT !.catalog =
                IF Len(catalogRecords) > 0
                THEN LanceDB_fromDocuments(@, StampCatalog(catalogRecords, runId),
                                           CommitMode(overwrite))
                ELSE @]
    /\ pc' = "images"
    /\ UNCHANGED <<tempDir, runId, overwrite, filesDir, catalogTableExists, rawDocs,
                   cursor, skipSources, catalogRecords, summarized, imageDocuments,
                   allDocs, failure, faults, pre, prev, appendOnly, repeated,
                   imageFaults, searchVars>>

\* seed(): LanceDB.fromDocuments for the catalog rejects (embedding service).
CommitCatalogFails ==
    /\ pc = "docs"
    /\ cursor > Len(docsBySource(rawDocs))
    /\ Len(catalogRecords) > 0
    /\ Abort("catalog-commit", "")

FaultCount(b) == IF b THEN 1 ELSE 0

\* processImages(): create the scratch directory, describe the images of the
\* PDFs that are not skipped and the standalone images, clean up.
ProcessImages(rasterFail, normFail, scanFail, cleanupFail) ==
    /\ pc = "images"
    /\ rasterFail \subseteq RangeOf(pdfSources(rawDocs, skipSources))
    /\ normFail \subseteq (IF scanFail THEN {} ELSE RangeOf(findImageFiles(filesDir)))
    /\ LET n == Cardinality(rasterFail) + Cardinality(normFail)
                + FaultCount(scanFail) + FaultCount(cleanupFail)
       IN  /\ faults + n <= MaxFaults
           /\ faults' = faults + n
    /\ imageDocuments' = ImageDocs(rawDocs, skipSources, filesDir,
                                   rasterFail, normFail, scanFail)
    /\ tempDir' = cleanupTempFiles(
                      [exists |-> TRUE,
                       files |-> tempDir.files \cup ScratchFiles(imageDocuments')],
                      ~cleanupFail)
    /\ imageFaults' = [called |-> TRUE, raster |-> rasterFail, norm |-> normFail,
                       scan |-> scanFail, cleanup |-> cleanupFail]
    /\ pc' = "chunks"
    /\ UNCHANGED <<db, runId, overwrite, filesDir, catalogTableExists, rawDocs,
                   cursor, skipSources, catalogRecords, summarized, allDocs,
                   failure, pre, prev, appendOnly, repeated, searchVars>>

\* seed(): split the remaining text documents, add the image documents and
\* commit the batch to the chunks table.
CommitChunks ==
    /\ pc = "chunks"
    /\ allDocs' = splitDocuments(filteredRawDocs(rawDocs, skipSources))
                  \o imageDocuments
    /\ db' = [db EXCEPT !.chunks =
                IF Len(allDocs') > 0
                THEN LanceDB_fromDocuments(@, StampChunks(allDocs', runId),
                                           CommitMode(overwrite))
                ELSE @]
    /\ pc' = "done"
    /\ UNCHANGED <<tempDir, runId, overwrite, filesDir, catalogTableExists, rawDocs,
                   cursor, skipSources, catalogRecords, summarized, imageDocuments,
                   failure, faults, pre, prev, appendOnly, repeated, imageFaults, searchVars>>

\* seed(): LanceDB.fromDocuments for the chunks rejects (embedding service).
CommitChunksFails ==
    /\ pc = "chunks"
    /\ Len(splitDocuments(filteredRawDocs(rawDocs, skipSources)) \o imageDocuments) > 0
    /\ Abort("chunks-commit", "")

Next ==
    \/ \E ow \in BOOLEAN, dir \in Dirs : StartRun(ow, dir)
    \/ LoadDocs
    \/ LoadFails
    \/ ProcessSource
    \/ ReadFileFails
    \/ SummarizeFails
    \/ CommitCatalog
    \/ CommitCatalogFails
    \/ \E rasterFail \in SUBSET RangeOf(PdfPaths), normFail \in SUBSET RangeOf(ImgPaths),
          scanFail \in BOOLEAN, cleanupFail \in BOOLEAN :
            ProcessImages(rasterFail, normFail, scanFail, cleanupFail)
    \/ CommitChunks
    \/ CommitChunksFails

Spec == Init /\ [][Next]_vars

\* The same run, over the directories that exercise image processing.
ImageNext ==
    \/ \E ow \in BOOLEAN, dir \in ImageDirs : StartRun(ow, dir)
    \/ LoadDocs
    \/ LoadFails
    \/ ProcessSource
    \/ ReadFileFails
    \/ SummarizeFails
    \/ CommitCatalog
    \/ CommitCatalogFails
    \/ \E rasterFail \in SUBSET RangeOf(PdfPaths), normFail \in SUBSET RangeOf(ImgPaths),
          scanFail \in BOOLEAN, cleanupFail \in BOOLEAN :
            ProcessImages(rasterFail, normFail, scanFail, cleanupFail)
    \/ CommitChunks
    \/ CommitChunksFails

ImageSpec == Init /\ [][ImageNext]_vars

(***************************************************************************)
(* Properties of the ingestion run.                                        *)
(***************************************************************************)
CatalogRows == db.catalog.rows
ChunkRows == db.chunks.rows
Processed == {docsBySource(rawDocs)[i] : i \in 1..(cursor - 1)}
Skipped == RangeOf(skipSources)
Staged == {catalogRecords[i].source : i \in DOMAIN catalogRecords}
PresentPdfs(dir) == {p \in RangeOf(PdfPaths) : dir.pdfs[p] # NoFile}
HashInTable(table, hash) == \E i \in DOMAIN table.rows : table.rows[i].hash = hash
IsPrefix(s, t) == Len(s) <= Len(t) /\ SubSeq(t, 1, Len(s)) = s

\* C1: after any sequence of completed runs the catalog table holds at most
\* one record per distinct content hash.
C1_AtMostOneRecordPerHash ==
    (pc = "done" /\ prev.outcome # "aborted") =>
        \A i, j \in DOMAIN CatalogRows :
            CatalogRows[i].hash = CatalogRows[j].hash => i = j

\* The second of two completed append-mode runs over the same directory.
SameDirTwice ==
    /\ pc = "done" /\ ~overwrite
    /\ prev.outcome = "done" /\ ~prev.overwrite
    /\ prev.dir = filesDir

C3_SkipDecision ==
    \A s \in Processed :
        /\ (s \in Skipped) <=>
              (/\ ~overwrite
               /\ pre.catalog.exists
               /\ HashInTable(pre.catalog, HashOf(filesDir, s)))
        /\ (s \in Skipped) => (s \notin RangeOf(summarized) /\ s \notin Staged)
        /\ (s \notin Skipped) => (s \in RangeOf(summarized) /\ s \in Staged)

\* A byte-identical copy under a path the catalog has never seen is skipped.
C3_Witness ==
    /\ pc = "done"
    /\ \E s \in Skipped :
          /\ \A i \in DOMAIN pre.catalog.rows : pre.catalog.rows[i].source # s
          /\ HashInTable(pre.catalog, HashOf(filesDir, s))
    /\ \E s \in Processed : s \notin Skipped

\* C4: when reading or summarizing one source fails, the run still commits
\* the catalog record and the text chunks of every other source that is not
\* in the catalog.
C4_FailureIsolated ==
    (RunEnded /\ failure.kind \in {"read", "summarize"}) =>
        \A s \in PresentPdfs(filesDir) \ {failure.source} :
            (overwrite \/ ~HashInTable(pre.catalog, HashOf(filesDir, s))) =>
                /\ \E i \in DOMAIN CatalogRows :
                      CatalogRows[i].source = s /\ CatalogRows[i].run = runId
                /\ \E i \in DOMAIN ChunkRows :
                      /\ ChunkRows[i].source = s /\ ChunkRows[i].run = runId
                      /\ ChunkRows[i].type = "text"

\* C5: after a completed run with --overwrite both tables hold only rows
\* written by that run.
C5_RebuildKeepsNoOldRow ==
    (pc = "done" /\ overwrite) =>
        /\ \A i \in DOMAIN CatalogRows : CatalogRows[i].run = runId
        /\ \A i \in DOMAIN ChunkRows : ChunkRows[i].run = runId

\* C6: in a run without --overwrite every row present before the run stays,
\* unchanged and in place; once the run is complete each table is the table
\* before the run followed by the run's batch, and a table whose batch is
\* empty is left as it was.
C6_AppendFrame ==
    (pc # "idle" /\ ~overwrite) =>
        /\ IsPrefix(pre.catalog.rows, CatalogRows)
        /\ IsPrefix(pre.chunks.rows, ChunkRows)
        /\ pc = "done" =>
              /\ CatalogRows = pre.catalog.rows \o StampCatalog(catalogRecords, runId)
              /\ ChunkRows = pre.chunks.rows \o StampChunks(allDocs, runId)
              /\ catalogRecords = <<>> => db.catalog = pre.catalog
              /\ allDocs = <<>> => db.chunks = pre.chunks

\* A file whose content changed has a new record beside the one of its old hash.
C6_Witness ==
    /\ pc = "done" /\ ~overwrite
    /\ \E i, j \in DOMAIN CatalogRows :
          /\ i < j
          /\ CatalogRows[i].source = CatalogRows[j].source
          /\ CatalogRows[i].hash # CatalogRows[j].hash
          /\ CatalogRows[i].run < runId
          /\ CatalogRows[j].run = runId
    /\ pre.chunks.rows # <<>>

\* One PDF of the directory is new, the other one's hash is in the catalog.
OneNewOneCataloged(new, old) ==
    /\ pc = "done" /\ ~overwrite
    /\ filesDir.images = {}
    /\ PresentPdfs(filesDir) = {new, old} /\ new # old
    /\ pre.catalog.exists
    /\ HashInTable(pre.catalog, HashOf(filesDir, old))
    /\ ~HashInTable(pre.catalog, HashOf(filesDir, new))

\* C7: the batch committed to the chunks table holds no record, text chunk
\* or page image, of a skipped source; with one new PDF and one PDF whose
\* hash is cataloged the run stages one catalog record, the new PDF's, and
\* every chunk record is the new PDF's.
C7_NoChunkOfSkippedSource ==
    /\ \A i \in DOMAIN allDocs : allDocs[i].source \notin Skipped
    /\ \A i \in DOMAIN imageDocuments : imageDocuments[i].source \notin Skipped
    /\ pc = "done" =>
          \A i \in DOMAIN ChunkRows :
              ChunkRows[i].run = runId => ChunkRows[i].source \notin Skipped
    /\ \A new, old \in RangeOf(PdfPaths) :
          OneNewOneCataloged(new, old) =>
              /\ catalogRecords = <<[source |-> new, hash |-> HashOf(filesDir, new)]>>
              /\ Skipped = {old}
              /\ \A i \in DOMAIN allDocs : allDocs[i].source = new

C7_Witness ==
    \E new, old \in RangeOf(PdfPaths) :
        /\ OneNewOneCataloged(new, old)
        /\ \E i \in DOMAIN allDocs : allDocs[i].type = "text"
        /\ \E i \in DOMAIN allDocs : allDocs[i].type = "image"

(***************************************************************************)
(* Properties of image processing.                                         *)
(***************************************************************************)
\* The image descriptors of one source in a sequence of documents or rows.
DescriptorsOf(docs, src) ==
    {i \in DOMAIN docs : docs[i].type = "image" /\ docs[i].source = src}

\* The rows the current run wrote to the chunks table.
RunRows == SelectSeq(ChunkRows, LAMBDA r : r.run = runId)

\* C11: when the normalization of a standalone image fails,
\* processStandaloneImage returns the original path, the image still yields
\* exactly one descriptor whose source and imagePath are the original path
\* and which has no pageNumber, every other image of the directory gets its
\* descriptor too, and a completed run has committed that descriptor.
C11_ImageFallback ==
    imageFaults.called =>
        \A img \in imageFaults.norm :
            /\ processStandaloneImage(img, FALSE) = img
            /\ Cardinality(DescriptorsOf(imageDocuments, img)) = 1
            /\ \A i \in DescriptorsOf(imageDocuments, img) :
                    /\ imageDocuments[i].imagePath = img
                    /\ imageDocuments[i].page = 0
            /\ \A other \in filesDir.images :
                    Cardinality(DescriptorsOf(imageDocuments, other)) = 1
            /\ pc = "done" =>
                    /\ Cardinality(DescriptorsOf(RunRows, img)) = 1
                    /\ \A i \in DescriptorsOf(RunRows, img) :
                            RunRows[i].imagePath = img /\ RunRows[i].page = 0

\* The first of two images fell back to its original path, the second one
\* was normalized, and the run completed.
C11_Witness ==
    /\ pc = "done"
    /\ filesDir.images = {"i.png", "j.jpg"}
    /\ imageFaults.norm = {"i.png"}
    /\ \E i \in DescriptorsOf(RunRows, "j.jpg") :
            RunRows[i].imagePath = processStandaloneImage("j.jpg", TRUE)

\* The text chunks of one source in a sequence of documents or rows.
TextChunksOf(docs, src) ==
    {i \in DOMAIN docs : docs[i].type = "text" /\ docs[i].source = src}

\* The PDFs of the run that are not skipped.
NewPdfs == RangeOf(pdfSources(rawDocs, skipSources))

\* C12: a non-skipped PDF whose rasterization fails contributes no image
\* descriptor, while the descriptors of the other PDFs (one per page), the
\* descriptors of the standalone images and the text chunks of the failing
\* PDF itself are produced, and committed when the run completes.
C12_RasterFailureIsolated ==
    imageFaults.called =>
        \A p \in imageFaults.raster :
            /\ DescriptorsOf(imageDocuments, p) = {}
            /\ \A q \in NewPdfs \ imageFaults.raster :
                    Cardinality(DescriptorsOf(imageDocuments, q))
                        = NumPages(HashOf(filesDir, q))
            /\ ~imageFaults.scan =>
                    \A img \in filesDir.images :
                        Cardinality(DescriptorsOf(imageDocuments, img)) = 1
            /\ pc = "done" =>
                    /\ DescriptorsOf(RunRows, p) = {}
                    /\ Cardinality(TextChunksOf(RunRows, p))
                            = NumPages(HashOf(filesDir, p))
                    /\ \A q \in NewPdfs \ imageFaults.raster :
                            Cardinality(DescriptorsOf(RunRows, q))
                                = NumPages(HashOf(filesDir, q))
                    /\ ~imageFaults.scan =>
                            \A img \in filesDir.images :
                                Cardinality(DescriptorsOf(RunRows, img)) = 1

\* The rasterization of a.pdf failed; the run committed its two text
\* chunks, the page image of b.pdf and the descriptor of i.png.
C12_Witness ==
    /\ pc = "done"
    /\ imageFaults.raster = {"a.pdf"}
    /\ TextChunksOf(RunRows, "a.pdf") # {}
    /\ DescriptorsOf(RunRows, "b.pdf") # {}
    /\ DescriptorsOf(RunRows, "i.png") # {}

\* C13: standalone images are never deduplicated.  Every completed run whose
\* directory listing succeeded commits exactly one descriptor for every
\* standalone image of the directory, in either mode and whatever the catalog
\* holds; so after N completed append-mode runs over the same directory,
\* starting from an empty database, the chunks table holds N records for
\* each standalone image.
C13_ImagesNeverDeduplicated ==
    (pc = "done" /\ ~imageFaults.scan) =>
        \A img \in filesDir.images :
            /\ Cardinality(DescriptorsOf(RunRows, img)) = 1
            /\ (repeated /\ ~overwrite) =>
                    Cardinality(DescriptorsOf(ChunkRows, img)) = runId

\* The second append-mode run over the same directory: its PDFs are in the
\* catalog and skipped, and each of both images has two records.
C13_Witness ==
    /\ pc = "done"
    /\ runId = MaxRuns
    /\ repeated
    /\ ~overwrite
    /\ ~imageFaults.scan
    /\ filesDir.images = {"i.png", "j.jpg"}
    /\ Len(skipSources) = 2
    /\ \A img \in filesDir.images :
            Cardinality(DescriptorsOf(ChunkRows, img)) = MaxRuns

\* The scratch directory and everything in it are gone.
ScratchGone == tempDir = [exists |-> FALSE, files |-> {}]

\* The run's image descriptors are rows of the chunks table.
DescriptorsCommitted ==
    \A i \in DOMAIN imageDocuments :
        \E k \in DOMAIN RunRows :
            /\ RunRows[k].source = imageDocuments[i].source
            /\ RunRows[k].imagePath = imageDocuments[i].imagePath

C15_AbortBeforeCommitIsAtomic ==
    (pc = "aborted" /\ failure.kind \in {"load", "read", "summarize"}) => db = pre

\* The sources of the catalog rows that hold one hash.
CatalogSourcesOf(hash) ==
    {CatalogRows[i].source : i \in {k \in DOMAIN CatalogRows : CatalogRows[k].hash = hash}}

\* C16: after append-mode runs only, any of which may have aborted at any
\* step, a completed run leaves every source of the directory whose hash has
\* a catalog record with text chunks in the chunks table (under the path of
\* one of the records of that hash), so no source was skipped with its
\* chunks missing.
C16_CatalogedSourcesHaveChunks ==
    (pc = "done" /\ appendOnly) =>
        \A s \in PresentPdfs(filesDir) :
            HashInTable(db.catalog, HashOf(filesDir, s)) =>
                \E src \in CatalogSourcesOf(HashOf(filesDir, s)) :
                    TextChunksOf(ChunkRows, src) # {}

(***************************************************************************)
(* The search tools (chunks_search.ts, broad_chunks_search.ts).  Strings   *)
(* are built as the code builds them; the pictographs that open the        *)
(* "Source", "File Path" and "Content" labels are left out.                *)
(***************************************************************************)
\* !v
Falsy(v) ==
    \/ v.t \in {"undefined", "null"}
    \/ (v.t = "number" /\ v.num = 0)
    \/ (v.t = "string" /\ v.str = "")

\* v[field]: a property a primitive does not have reads as undefined.
Get(v, field) ==
    IF v.t = "object" /\ field \in DOMAIN v THEN v[field] ELSE Undefined

\* `${v}`
TemplateString(v) ==
    CASE v.t = "number" -> ToString(v.num)
      [] v.t = "string" -> v.str
      [] v.t = "undefined" -> "undefined"
      [] v.t = "null" -> "null"
      [] OTHER -> "[object Object]"

\* v.toString(): a TypeError for null and undefined.
toString(v) ==
    IF v.t \in {"undefined", "null"} THEN Throw ELSE Str(TemplateString(v))

\* ChunksSearchTool.extractPageInfo
ChunksSearchTool_extractPageInfo(l) ==
    IF Falsy(l) THEN Null
    ELSE IF l.t = "object" /\ Get(l, "pageNumber") # Undefined
    THEN toString(Get(l, "pageNumber"))
    ELSE IF l.t = "object" /\ Get(l, "page") # Undefined
    THEN toString(Get(l, "page"))
    ELSE IF /\ l.t = "object"
            /\ ~Falsy(Get(l, "lines"))
            /\ Get(Get(l, "lines"), "from") # Undefined
    THEN Str("Line " \o TemplateString(Get(Get(l, "lines"), "from"))
             \o (IF ~Falsy(Get(Get(l, "lines"), "to"))
                 THEN "-" \o TemplateString(Get(Get(l, "lines"), "to"))
                 ELSE ""))
    ELSE IF l.t \in {"string", "number"}
    THEN toString(l)
    ELSE Null

\* BroadSearchTool.extractPageInfo: the same text as ChunksSearchTool's.
BroadSearchTool_extractPageInfo(l) ==
    IF Falsy(l) THEN Null
    ELSE IF l.t = "object" /\ Get(l, "pageNumber") # Undefined
    THEN toString(Get(l, "pageNumber"))
    ELSE IF l.t = "object" /\ Get(l, "page") # Undefined
    THEN toString(Get(l, "page"))
    ELSE IF /\ l.t = "object"
            /\ ~Falsy(Get(l, "lines"))
            /\ Get(Get(l, "lines"), "from") # Undefined
    THEN Str("Line " \o TemplateString(Get(Get(l, "lines"), "from"))
             \o (IF ~Falsy(Get(Get(l, "lines"), "to"))
                 THEN "-" \o TemplateString(Get(Get(l, "lines"), "to"))
                 ELSE ""))
    ELSE IF l.t \in {"string", "number"}
    THEN toString(l)
    ELSE Null

RECURSIVE LastSlash(_, _)
\* The position of the last "/" of s at or before i, or 0.
LastSlash(s, i) ==
    IF i = 0 THEN 0
    ELSE IF SubSeq(s, i, i) = "/" THEN i
    ELSE LastSlash(s, i - 1)

\* source.split('/').pop()
Basename(s) == SubSeq(s, LastSlash(s, Len(s)) + 1, Len(s))

\* result.metadata?.source ? result.metadata.source.split('/').pop() : 'Unknown file'
FileName(result) ==
    IF Falsy(result.source) THEN "Unknown file" ELSE Basename(result.source.str)

\* The "File Path" line, written when the hit has a source.
FilePathLine(result) ==
    IF Falsy(result.source) THEN ""
    ELSE "**File Path**: " \o result.source.str \o "\n"

\* One iteration of the forEach of formatResultsWithReferences, given what
\* extractPageInfo returned (a string or null).
ResultBlock(result, index, info) ==
    "**Result " \o ToString(index + 1) \o "**\n"
    \o "**Source**: " \o FileName(result)
    \o (IF ~Falsy(info) THEN " (Page " \o info.str \o ")" ELSE "")
    \o "\n"
    \o FilePathLine(result)
    \o "**Content**: " \o result.pageContent \o "\n"
    \o "---\n\n"

RECURSIVE ChunksSearchTool_forEach(_, _)
ChunksSearchTool_forEach(rs, index) ==
    IF index >= Len(rs) THEN ""
    ELSE ResultBlock(rs[index + 1], index,
                     ChunksSearchTool_extractPageInfo(rs[index + 1].loc))
         \o ChunksSearchTool_forEach(rs, index + 1)

\* ChunksSearchTool.formatResultsWithReferences: a string, or Throw when
\* extractPageInfo throws for one of the hits.
HeaderWithoutGuard(rs) ==
    IF \E i \in DOMAIN rs : ChunksSearchTool_extractPageInfo(rs[i].loc) = Throw
    THEN Throw
    ELSE Str("Search Results:\n\n" \o ChunksSearchTool_forEach(rs, 0))
ChunksSearchTool_formatResultsWithReferences(rs) ==
    IF Len(rs) = 0 THEN Str("No results found.")
    ELSE IF \E i \in DOMAIN rs : ChunksSearchTool_extractPageInfo(rs[i].loc) = Throw
    THEN Throw
    ELSE Str("Search Results:\n\n" \o ChunksSearchTool_forEach(rs, 0))

RECURSIVE BroadSearchTool_forEach(_, _)
BroadSearchTool_forEach(rs, index) ==
    IF index >= Len(rs) THEN ""
    ELSE ResultBlock(rs[index + 1], index,
                     BroadSearchTool_extractPageInfo(rs[index + 1].loc))
         \o BroadSearchTool_forEach(rs, index + 1)

\* BroadSearchTool.formatResultsWithReferences
BroadSearchTool_formatResultsWithReferences(rs) ==
    IF Len(rs) = 0 THEN Str("No results found.")
    ELSE IF \E i \in DOMAIN rs : BroadSearchTool_extractPageInfo(rs[i].loc) = Throw
    THEN Throw
    ELSE Str("Search Results:\n\n" \o BroadSearchTool_forEach(rs, 0))

RECURSIVE CatalogSearchTool_forEach(_, _)
\* CatalogSearchTool: the blocks carry no page annotation.
CatalogSearchTool_forEach(rs, index) ==
    IF index >= Len(rs) THEN ""
    ELSE ResultBlock(rs[index + 1], index, Null)
         \o CatalogSearchTool_forEach(rs, index + 1)

\* CatalogSearchTool.formatResultsWithReferences
CatalogSearchTool_formatResultsWithReferences(rs) ==
    IF Len(rs) = 0 THEN Str("No results found.")
    ELSE Str("Search Results:\n\n" \o CatalogSearchTool_forEach(rs, 0))

\* ChunksSearchTool.execute: results.filter(r => r.metadata.source === params.source),
\* applied when params.source is truthy.
NoSourceFilter(rs, source) == rs
ChunksSearchTool_filter(rs, source) ==
    IF ~Falsy(source)
    THEN SelectSeq(rs, LAMBDA r : r.source = source)
    ELSE rs

\* execute(): the success payload, or handleError's payload when formatting threw.
Payload(tool, source, formatted) ==
    IF formatted = Throw
    THEN [tool |-> tool, source |-> source, isError |-> TRUE, text |-> "Error"]
    ELSE [tool |-> tool, source |-> source, isError |-> FALSE, text |-> formatted.str]

(***************************************************************************)
(* One tool call over a list of retrieved hits.                            *)
(***************************************************************************)
PageNumberValues == {Undefined, Null, Num(0), Num(3)}
PageValues == {Undefined, Num(5)}
LinesValues ==
    {Undefined,
     LinesObject(Undefined, Undefined),
     LinesObject(Num(10), Undefined),
     LinesObject(Num(10), Num(20)),
     LinesObject(Num(10), Num(0)),
     LinesObject(Num(0), Num(20))}

\* The location values handed to extractPageInfo.
Locs ==
    {Undefined, Null, Num(0), Num(3), Str(""), Str("p5")}
    \cup {LocObject(pn, pg, ln) :
            pn \in PageNumberValues, pg \in PageValues, ln \in LinesValues}

\* The hits retrieval returns: metadata.source, metadata.loc and pageContent.
HitSources == {Str("docs/a.pdf"), Str("docs/b.pdf"), Undefined}
HitLocs == {Undefined, LocObject(Num(3), Undefined, Undefined), Str("p5"),
            LocObject(Null, Undefined, Undefined)}
Hits == [source : HitSources, loc : HitLocs, pageContent : {"text"}]

RECURSIVE SeqsUpTo(_, _)
\* The sequences over set of length at most n.
SeqsUpTo(set, n) ==
    IF n = 0 THEN {<<>>}
    ELSE LET shorter == SeqsUpTo(set, n - 1)
         IN  shorter \cup {Append(q, x) : q \in {r \in shorter : Len(r) = n - 1}, x \in set}

\* params.source of chunks_search: absent, empty, a stored path, a path that
\* is only the file name of a stored path.
SourceParams == {Undefined, Str(""), Str("docs/a.pdf"), Str("docs/b.pdf"), Str("a.pdf")}

SearchInit ==
    /\ IngestInit
    /\ \/ results = <<>> /\ loc \in Locs
       \/ results \in SeqsUpTo(Hits, MaxHits) /\ loc = Undefined
    /\ pageInfo = NotCalled
    /\ response = NoResponse

\* extractPageInfo(loc) of chunks_search or all_chunks_search.
ExtractPageInfo(tool) ==
    /\ pageInfo = NotCalled
    /\ pageInfo' = [tool |-> tool, loc |-> loc,
                    result |-> IF tool = "chunks_search"
                               THEN ChunksSearchTool_extractPageInfo(loc)
                               ELSE BroadSearchTool_extractPageInfo(loc)]
    /\ UNCHANGED <<ingestVars, results, loc, response>>

\* ChunksSearchTool.execute({text, source})
ChunksSearchTool_execute(source) ==
    /\ response = NoResponse
    /\ response' = Payload("chunks_search", source,
                       ChunksSearchTool_formatResultsWithReferences(
                           ChunksSearchTool_filter(results, source)))
    /\ UNCHANGED <<ingestVars, results, loc, pageInfo>>

\* BroadSearchTool.execute({text})
BroadSearchTool_execute ==
    /\ response = NoResponse
    /\ response' = Payload("all_chunks_search", Undefined,
                       BroadSearchTool_formatResultsWithReferences(results))
    /\ UNCHANGED <<ingestVars, results, loc, pageInfo>>

\* CatalogSearchTool.execute({text})
CatalogSearchTool_execute ==
    /\ response = NoResponse
    /\ response' = Payload("catalog_search", Undefined,
                       CatalogSearchTool_formatResultsWithReferences(results))
    /\ UNCHANGED <<ingestVars, results, loc, pageInfo>>

SearchNext ==
    \/ \E tool \in {"chunks_search", "all_chunks_search"} : ExtractPageInfo(tool)
    \/ \E source \in SourceParams : ChunksSearchTool_execute(source)
    \/ BroadSearchTool_execute
    \/ CatalogSearchTool_execute

SearchSpec == SearchInit /\ [][SearchNext]_vars

(***************************************************************************)
(* Properties of the search tools.                                         *)
(***************************************************************************)
HasField(l, field) == l.t = "object" /\ Get(l, field) # Undefined

\* The page annotations the location rules allow for l, first match first;
\* "" stands for no annotation.
RuleAnnotations(l) ==
    IF HasField(l, "pageNumber") THEN {TemplateString(Get(l, "pageNumber"))}
    ELSE IF HasField(l, "page") THEN {TemplateString(Get(l, "page"))}
    ELSE IF HasField(l, "lines") /\ HasField(Get(l, "lines"), "from")
    THEN LET from == TemplateString(Get(Get(l, "lines"), "from"))
             to == Get(Get(l, "lines"), "to")
         IN  {"Line " \o from} \cup
             (IF to = Undefined THEN {} ELSE {"Line " \o from \o "-" \o TemplateString(to)})
    ELSE IF l.t \in {"string", "number"} THEN {TemplateString(l)}
    ELSE {""}

\* C8: extractPageInfo decides the page annotation of every location value by
\* the first matching rule: pageNumber field, page field, line range
\* ("Line X" or "Line X-Y"), primitive string or number verbatim, else none.
C8_LocationRules ==
    pageInfo.tool # "none" =>
        /\ pageInfo.result # Throw
        /\ (IF Falsy(pageInfo.result) THEN "" ELSE pageInfo.result.str)
               \in RuleAnnotations(pageInfo.loc)

\* The hits whose metadata.source is string-equal to source, in retrieval order.
Matching(rs, source) == SelectSeq(rs, LAMBDA r : r.source = source)

RECURSIVE NumberedBlocks(_, _)
\* The blocks of hits from position i on, the hit at position i numbered i.
NumberedBlocks(hits, i) ==
    IF i > Len(hits) THEN ""
    ELSE ResultBlock(hits[i], i - 1, ChunksSearchTool_extractPageInfo(hits[i].loc))
         \o NumberedBlocks(hits, i + 1)

ExpectedText(hits) ==
    IF hits = <<>> THEN "No results found."
    ELSE "Search Results:\n\n" \o NumberedBlocks(hits, 1)

AnnotationThrows(hits) ==
    \E i \in DOMAIN hits : ChunksSearchTool_extractPageInfo(hits[i].loc) = Throw

\* C9 (as stated): the output of chunks_search(text, source) holds a block for
\* exactly the retrieved hits whose source equals the requested source, in
\* retrieval order, numbered from 1.
C9_ExactSourceFilter ==
    (response.tool = "chunks_search" /\ response.source.t = "string"
        /\ ~response.isError) =>
        response.text = ExpectedText(Matching(results, response.source))

\* The hits a tool call formats: chunks_search filters when a source that is
\* not the empty string is given.
FormattedHits ==
    IF response.tool = "chunks_search" /\ ~Falsy(response.source)
    THEN Matching(results, response.source)
    ELSE results

\* C9 (amended): for every requested source that is not the empty string the
\* output holds a block for exactly the retrieved hits whose source equals
\* it, in retrieval order, numbered from 1; with an empty or absent source
\* no filter is applied and every retrieved hit has its block.  The answer
\* is the error payload exactly when the annotation of a hit to format
\* cannot be rendered.
C9_ExactFilterForNonEmptySource ==
    response.tool = "chunks_search" =>
        /\ response.isError <=> AnnotationThrows(FormattedHits)
        /\ ~response.isError => response.text = ExpectedText(FormattedHits)

C9_Witness ==
    /\ response.tool = "chunks_search" /\ ~response.isError
    /\ ~Falsy(response.source)
    /\ Len(results) = 3
    /\ results[1].source # response.source
    /\ results[2].source = response.source
    /\ results[3].source = response.source
    /\ results[2].loc # results[3].loc

\* C10: for catalog_search, chunks_search and all_chunks_search an empty list
\* of hits to format gives the success payload "No results found."; a
\* success payload is never empty and never the header alone.
C10_EmptyResultText ==
    response.tool # "none" =>
        /\ FormattedHits = <<>> =>
              (~response.isError /\ response.text = "No results found.")
        /\ ~response.isError =>
              (response.text # "" /\ response.text # "Search Results:\n\n")

\* The source filter removes every retrieved hit.
C10_Witness ==
    /\ response.tool = "chunks_search"
    /\ results # <<>>
    /\ ~Falsy(response.source)
    /\ FormattedHits = <<>>
    /\ response.text = "No results found."

====
